---- MODULE Spec2Model ----
(***************************************************************************)
(* scaffold.py: a structure file is read into raw lines, tokenized into    *)
(* depth-tagged entries, validated against a depth-keyed folder ledger     *)
(* under a Strict / Skip / Fix policy, and built on the filesystem         *)
(* (folders first, then files, each phase sorted by depth).                *)
(*                                                                         *)
(* A string is a sequence of one-character strings.  A path is a sequence  *)
(* of components relative to base_path (the current directory); <<>> is    *)
(* base_path itself.                                                       *)
(***************************************************************************)
EXTENDS Integers, Sequences, FiniteSets, TLC

VARIABLES
    args,          \* argparse namespace: file, dry_run, reverse, skip_bad, fix_bad
    disk,          \* the structure file on disk: [state, lines]
    fs,            \* the filesystem under base_path: [dirs, files]
    pc,            \* position of the run
    raw_lines,     \* main: raw_lines
    tokens,        \* main: tokens (the dicts are shared with validated)
    vi,            \* validate_tokens: index of the token the loop is at
    validated,     \* validate_tokens: validated
    folder_stack,  \* validate_tokens: folder_stack (depth -> folder name)
    verr,          \* the ValueError raised by validate_tokens, or NoError
    pending,       \* build_from_tokens: the rest of the sorted list iterated
    out,           \* what log() printed, in order
    exit_status,   \* process exit status, Running until the process ends
    calls,         \* number of build_from_tokens invocations started
    fs_init,       \* history: the filesystem when the run started
    fs_prev        \* history: the filesystem when build_from_tokens last returned

vars == <<args, disk, fs, pc, raw_lines, tokens, vi, validated, folder_stack,
          verr, pending, out, exit_status, calls, fs_init, fs_prev>>

----------------------------------------------------------------------------
(* Bounds of the input domains *)

MaxLineLen == 2
MaxTokLines == 2
MaxIndent == 3
MaxValLines == 3
MaxBuildLines == 2
MaxTreeDepth == 2

----------------------------------------------------------------------------
(* Python str methods used by the tokenizer *)

\* the characters str.strip() / str.lstrip() remove by default
Whitespace == {" ", "\t", "\n"}

RECURSIVE lstrip(_)
lstrip(s) ==
    IF s = <<>> THEN s
    ELSE IF Head(s) \in Whitespace THEN lstrip(Tail(s)) ELSE s

RECURSIVE rstrip(_, _)
rstrip(s, chars) ==
    IF s = <<>> THEN s
    ELSE IF s[Len(s)] \in chars THEN rstrip(SubSeq(s, 1, Len(s) - 1), chars) ELSE s

strip(s) == rstrip(lstrip(s), Whitespace)

endswith(s, c) == s # <<>> /\ s[Len(s)] = c

----------------------------------------------------------------------------
(* tokenize_structure *)

\* the dict appended for the line at enumerate index i (0-based)
Token(i, line) ==
    [type        |-> IF endswith(strip(line), "/") THEN "folder" ELSE "file",
     depth       |-> Len(line) - Len(lstrip(line)),
     name        |-> rstrip(strip(line), {"/"}),
     raw         |-> strip(line),
     line_number |-> i + 1]

\* faulty variant: skips only the empty line (`if not line`), so a
\* whitespace-only line yields an entry
RECURSIVE tokenize_from_emptyonly(_, _)
tokenize_from_emptyonly(lines, i) ==
    IF i >= Len(lines) THEN <<>>
    ELSE (IF lines[i + 1] = <<>> THEN <<>> ELSE <<Token(i, lines[i + 1])>>)
         \o tokenize_from_emptyonly(lines, i + 1)

RECURSIVE tokenize_from(_, _)
tokenize_from(lines, i) ==
    IF i >= Len(lines) THEN <<>>
    ELSE (IF strip(lines[i + 1]) = <<>> THEN <<>> ELSE <<Token(i, lines[i + 1])>>)
         \o tokenize_from(lines, i + 1)

tokenize_structure(lines) == tokenize_from(lines, 0)

----------------------------------------------------------------------------
(* log *)

\* one printed message: its kind, the entry (line number) it is about, the path
Msg(tag, line, path) == [tag |-> tag, line |-> line, path |-> path]

log(o, tag, line, path) == Append(o, Msg(tag, line, path))

----------------------------------------------------------------------------
(* validate_tokens *)

EmptyStack == [d \in {} |-> <<>>]

NoError == [line_number |-> 0, name |-> <<>>, depth |-> 0]

\* faulty variant: looks for the parent one column up instead of two
IsBad_onecolumn(token, stack) ==
    token.type = "file" /\ (token.depth - 1) \notin DOMAIN stack

\* line 92: a file whose depth - 2 is no key of folder_stack
IsBad(token, stack) ==
    token.type = "file" /\ (token.depth - 2) \notin DOMAIN stack

\* line 93: the message, by the three values it is formatted from
BadMsg(token) ==
    [line_number |-> token.line_number, name |-> token.name, depth |-> token.depth - 2]

\* faulty variant: a folder closes every other depth (the ledger is reset to
\* the one key)
Record_reset(stack, token) == [d \in {token.depth} |-> token.name]

\* line 106: folder_stack[depth] = name
Record(stack, token) ==
    [d \in (DOMAIN stack) \cup {token.depth} |->
        IF d = token.depth THEN token.name ELSE stack[d]]

\* line 99: token["depth"] = 0, on the dict that tokens holds too
Reparent(toks, i) == [toks EXCEPT ![i].depth = 0]

InLoop == pc = "validate" /\ vi <= Len(tokens)

ValidateSkip ==
    /\ InLoop
    /\ IsBad(tokens[vi], folder_stack)
    /\ args.skip_bad
    /\ out' = log(out, "SKIP", tokens[vi].line_number, <<>>)
    /\ vi' = vi + 1
    /\ UNCHANGED <<args, disk, fs, pc, raw_lines, tokens, validated, folder_stack,
                   verr, pending, exit_status, calls, fs_init, fs_prev>>

ValidateFix ==
    /\ InLoop
    /\ IsBad(tokens[vi], folder_stack)
    /\ ~args.skip_bad
    /\ args.fix_bad
    /\ out' = log(out, "FIX", tokens[vi].line_number, <<>>)
    /\ tokens' = Reparent(tokens, vi)
    /\ validated' = Append(validated, tokens'[vi])
    /\ vi' = vi + 1
    /\ UNCHANGED <<args, disk, fs, pc, raw_lines, folder_stack, verr, pending,
                   exit_status, calls, fs_init, fs_prev>>

ValidateRaise ==
    /\ InLoop
    /\ IsBad(tokens[vi], folder_stack)
    /\ ~args.skip_bad
    /\ ~args.fix_bad
    /\ verr' = BadMsg(tokens[vi])
    /\ pc' = "raised"
    /\ UNCHANGED <<args, disk, fs, raw_lines, tokens, vi, validated, folder_stack,
                   pending, out, exit_status, calls, fs_init, fs_prev>>

ValidateKeep ==
    /\ InLoop
    /\ ~IsBad(tokens[vi], folder_stack)
    /\ folder_stack' = IF tokens[vi].type = "folder"
                       THEN Record(folder_stack, tokens[vi]) ELSE folder_stack
    /\ validated' = Append(validated, tokens[vi])
    /\ vi' = vi + 1
    /\ UNCHANGED <<args, disk, fs, pc, raw_lines, tokens, verr, pending, out,
                   exit_status, calls, fs_init, fs_prev>>

ValidateReturn ==
    /\ pc = "validate"
    /\ vi > Len(tokens)
    /\ pc' = "build"
    /\ UNCHANGED <<args, disk, fs, raw_lines, tokens, vi, validated, folder_stack,
                   verr, pending, out, exit_status, calls, fs_init, fs_prev>>

validate_tokens ==
    ValidateSkip \/ ValidateFix \/ ValidateRaise \/ ValidateKeep \/ ValidateReturn

----------------------------------------------------------------------------
(* pathlib and the filesystem *)

EmptyFS == [dirs |-> {}, files |-> {}]

\* the component that stands for the filesystem root in an absolute path
Anchor == <<"/">>

RECURSIVE parts(_, _)
parts(s, cur) ==
    LET done == IF cur = <<>> \/ cur = <<".">> THEN <<>> ELSE <<cur>>
    IN  IF s = <<>> THEN done
        ELSE IF Head(s) = "/" THEN done \o parts(Tail(s), <<>>)
        ELSE parts(Tail(s), Append(cur, Head(s)))

\* base_path / name
joinpath(name) ==
    IF name # <<>> /\ Head(name) = "/" THEN <<Anchor>> \o parts(name, <<>>)
    ELSE parts(name, <<>>)

\* full_path.parent (the parent of base_path is outside the tree: it exists)
parent(p) == IF p = <<>> THEN <<>> ELSE SubSeq(p, 1, Len(p) - 1)

Ancestors(p) == {SubSeq(p, 1, k) : k \in 0..Len(p)}

is_dir(f, p) == p = <<>> \/ p = <<Anchor>> \/ p \in f.dirs

exists(f, p) == is_dir(f, p) \/ p \in f.files

\* faulty variant: exist_ok=False, an existing directory raises too
mkdir_raises_existing(f, p) ==
    (p # <<>> /\ exists(f, p)) \/ \E q \in Ancestors(p) : q \in f.files

\* mkdir(parents=True, exist_ok=True) raises when the path or one of its
\* ancestors is a file (FileExistsError, NotADirectoryError)
mkdir_raises(f, p) == \E q \in Ancestors(p) : q \in f.files

mkdir(f, p) ==
    [f EXCEPT !.dirs = @ \cup {q \in Ancestors(p) : ~is_dir(f, q)}]

\* touch(exist_ok=True): an existing path only gets its times updated
touch(f, p) == IF exists(f, p) THEN f ELSE [f EXCEPT !.files = @ \cup {p}]

----------------------------------------------------------------------------
(* build_from_tokens *)

OfType(toks, ty) == SelectSeq(toks, LAMBDA t : t.type = ty)

\* faulty variant: an entry goes before the entries of its own depth
RECURSIVE insert_unstable(_, _)
insert_unstable(s, x) ==
    IF s = <<>> THEN <<x>>
    ELSE IF x.depth <= Head(s).depth THEN <<x>> \o s
    ELSE <<Head(s)>> \o insert_unstable(Tail(s), x)

\* sorted(..., key=lambda x: x["depth"]): stable
RECURSIVE insert(_, _)
insert(s, x) ==
    IF s = <<>> THEN <<x>>
    ELSE IF x.depth < Head(s).depth THEN <<x>> \o s
    ELSE <<Head(s)>> \o insert(Tail(s), x)

RECURSIVE sorted(_)
sorted(s) ==
    IF s = <<>> THEN <<>>
    ELSE insert(sorted(SubSeq(s, 1, Len(s) - 1)), s[Len(s)])

BuildEnter ==
    /\ pc = "build"
    /\ pending' = sorted(OfType(validated, "folder"))
    /\ calls' = calls + 1
    /\ pc' = "folders"
    /\ UNCHANGED <<args, disk, fs, raw_lines, tokens, vi, validated, folder_stack,
                   verr, out, exit_status, fs_init, fs_prev>>

BuildFolder ==
    /\ pc = "folders"
    /\ pending # <<>>
    /\ LET token == Head(pending)
           full_path == joinpath(token.name)
       IN  IF args.dry_run
           THEN /\ out' = log(out, "Would create folder", token.line_number, full_path)
                /\ pending' = Tail(pending)
                /\ UNCHANGED <<fs, pc>>
           ELSE IF mkdir_raises(fs, full_path)
           THEN /\ pc' = "oserror"
                /\ UNCHANGED <<fs, out, pending>>
           ELSE /\ fs' = mkdir(fs, full_path)
                /\ out' = log(out, "Created folder", token.line_number, full_path)
                /\ pending' = Tail(pending)
                /\ UNCHANGED pc
    /\ UNCHANGED <<args, disk, raw_lines, tokens, vi, validated, folder_stack, verr,
                   exit_status, calls, fs_init, fs_prev>>

BuildFilesEnter ==
    /\ pc = "folders"
    /\ pending = <<>>
    /\ pending' = sorted(OfType(validated, "file"))
    /\ pc' = "files"
    /\ UNCHANGED <<args, disk, fs, raw_lines, tokens, vi, validated, folder_stack,
                   verr, out, exit_status, calls, fs_init, fs_prev>>

\* faulty variant: the file loop ignores dry_run
BuildFile_always ==
    /\ pc = "files"
    /\ pending # <<>>
    /\ LET token == Head(pending)
           full_path == joinpath(token.name)
       IN  IF mkdir_raises(fs, parent(full_path))
           THEN /\ pc' = "oserror"
                /\ UNCHANGED <<fs, out, pending>>
           ELSE /\ fs' = touch(mkdir(fs, parent(full_path)), full_path)
                /\ out' = log(out, "Created file", token.line_number, full_path)
                /\ pending' = Tail(pending)
                /\ UNCHANGED pc
    /\ UNCHANGED <<args, disk, raw_lines, tokens, vi, validated, folder_stack, verr,
                   exit_status, calls, fs_init, fs_prev>>

BuildFile ==
    /\ pc = "files"
    /\ pending # <<>>
    /\ LET token == Head(pending)
           full_path == joinpath(token.name)
       IN  IF args.dry_run
           THEN /\ out' = log(out, "Would create file", token.line_number, full_path)
                /\ pending' = Tail(pending)
                /\ UNCHANGED <<fs, pc>>
           ELSE IF mkdir_raises(fs, parent(full_path))
           THEN /\ pc' = "oserror"
                /\ UNCHANGED <<fs, out, pending>>
           ELSE /\ fs' = touch(mkdir(fs, parent(full_path)), full_path)
                /\ out' = log(out, "Created file", token.line_number, full_path)
                /\ pending' = Tail(pending)
                /\ UNCHANGED pc
    /\ UNCHANGED <<args, disk, raw_lines, tokens, vi, validated, folder_stack, verr,
                   exit_status, calls, fs_init, fs_prev>>

BuildReturn ==
    /\ pc = "files"
    /\ pending = <<>>
    /\ pc' = "built"
    /\ fs_prev' = fs
    /\ UNCHANGED <<args, disk, fs, raw_lines, tokens, vi, validated, folder_stack,
                   verr, pending, out, exit_status, calls, fs_init>>

build_from_tokens ==
    BuildEnter \/ BuildFolder \/ BuildFilesEnter \/ BuildFile \/ BuildReturn

\* a caller invoking build_from_tokens once more on the same tokens and base_path
BuildAgain ==
    /\ pc = "built"
    /\ calls < 2
    /\ pc' = "build"
    /\ UNCHANGED <<args, disk, fs, raw_lines, tokens, vi, validated, folder_stack,
                   verr, pending, out, exit_status, calls, fs_init, fs_prev>>

----------------------------------------------------------------------------
(* main *)

Running == 0 - 1

\* line 169: generate_directory_file is defined nowhere in the module, so the
\* call raises NameError before anything is walked or written
MainReverse ==
    /\ pc = "main"
    /\ args.reverse
    /\ pc' = "nameerror"
    /\ UNCHANGED <<args, disk, fs, raw_lines, tokens, vi, validated, folder_stack,
                   verr, pending, out, exit_status, calls, fs_init, fs_prev>>

\* lines 174-176
MainMissing ==
    /\ pc = "main"
    /\ ~args.reverse
    /\ args.file /\ disk.state = "missing"
    /\ out' = log(out, "ERROR: Structure file not found", 0, <<>>)
    /\ exit_status' = 1
    /\ pc' = "exit"
    /\ UNCHANGED <<args, disk, fs, raw_lines, tokens, vi, validated, folder_stack,
                   verr, pending, calls, fs_init, fs_prev>>

\* line 178, parse_structure_file returning the lines
MainParse ==
    /\ pc = "main"
    /\ ~args.reverse
    /\ ~(args.file /\ disk.state = "missing")
    /\ disk.state = "ok"
    /\ raw_lines' = disk.lines
    /\ pc' = "tokenize"
    /\ UNCHANGED <<args, disk, fs, tokens, vi, validated, folder_stack, verr,
                   pending, out, exit_status, calls, fs_init, fs_prev>>

\* parse_structure_file, lines 131-133: open or load raised
MainParseFailed ==
    /\ pc = "main"
    /\ ~args.reverse
    /\ ~(args.file /\ disk.state = "missing")
    /\ disk.state # "ok"
    /\ out' = log(out, "Failed to parse structure file", 0, <<>>)
    /\ exit_status' = 1
    /\ pc' = "exit"
    /\ UNCHANGED <<args, disk, fs, raw_lines, tokens, vi, validated, folder_stack,
                   verr, pending, calls, fs_init, fs_prev>>

\* line 179, and the entry into validate_tokens (lines 84-85)
MainTokenize ==
    /\ pc = "tokenize"
    /\ tokens' = tokenize_structure(raw_lines)
    /\ vi' = 1
    /\ validated' = <<>>
    /\ folder_stack' = EmptyStack
    /\ pc' = "validate"
    /\ UNCHANGED <<args, disk, fs, raw_lines, verr, pending, out, exit_status,
                   calls, fs_init, fs_prev>>

\* faulty variant: the handler reports the error and goes on to build what was
\* validated so far
MainValueError_goes_on ==
    /\ pc = "raised"
    /\ out' = log(log(out, "ERROR", verr.line_number, <<>>), "Tip", 0, <<>>)
    /\ pc' = "build"
    /\ UNCHANGED <<args, disk, fs, raw_lines, tokens, vi, validated, folder_stack,
                   verr, pending, exit_status, calls, fs_init, fs_prev>>

\* lines 182-185
MainValueError ==
    /\ pc = "raised"
    /\ out' = log(log(out, "ERROR", verr.line_number, <<>>), "Tip", 0, <<>>)
    /\ exit_status' = 1
    /\ pc' = "exit"
    /\ UNCHANGED <<args, disk, fs, raw_lines, tokens, vi, validated, folder_stack,
                   verr, pending, calls, fs_init, fs_prev>>

\* line 188
MainSuccess ==
    /\ pc = "built"
    /\ out' = log(out, "Directory structure created successfully.", 0, <<>>)
    /\ exit_status' = 0
    /\ pc' = "exit"
    /\ UNCHANGED <<args, disk, fs, raw_lines, tokens, vi, validated, folder_stack,
                   verr, pending, calls, fs_init, fs_prev>>

\* an exception main does not catch ends the process with a traceback, status 1
MainUncaught ==
    /\ pc \in {"nameerror", "oserror"}
    /\ exit_status' = 1
    /\ pc' = "exit"
    /\ UNCHANGED <<args, disk, fs, raw_lines, tokens, vi, validated, folder_stack,
                   verr, pending, out, calls, fs_init, fs_prev>>

main ==
    \/ MainReverse \/ MainMissing \/ MainParse \/ MainParseFailed
    \/ MainTokenize \/ validate_tokens \/ MainValueError
    \/ build_from_tokens \/ MainSuccess \/ MainUncaught

----------------------------------------------------------------------------
(* Input domains *)

RECURSIVE Spaces(_)
Spaces(n) == IF n = 0 THEN <<>> ELSE <<" ">> \o Spaces(n - 1)

\* a line as readlines() returns it
Line(indent, name, folder) ==
    Spaces(indent) \o name \o (IF folder THEN <<"/">> ELSE <<>>) \o <<"\n">>

SeqsUpTo(S, n) == UNION {[1..k -> S] : k \in 0..n}

Alphabet == {" ", "\n", "/", "a"}
TokInputs == SeqsUpTo(SeqsUpTo(Alphabet, MaxLineLen), MaxTokLines)

ValLines == {Line(i, <<"a">>, f) : i \in 0..MaxIndent, f \in BOOLEAN} \cup {<<"\n">>}
ValInputs == SeqsUpTo(ValLines, MaxValLines)

BuildNames == {<<"a">>, <<"b">>, <<"a", "/", "b">>}
BuildLines == {Line(i, n, f) : i \in {0, 2}, n \in BuildNames, f \in BOOLEAN}
BuildInputs == SeqsUpTo(BuildLines, MaxBuildLines)

InitFS ==
    { EmptyFS,
      [dirs |-> {}, files |-> {<< <<"a">> >>}],
      [dirs |-> {<< <<"a">> >>}, files |-> {}],
      [dirs |-> {<< <<"a">> >>}, files |-> {<< <<"a">>, <<"b">> >>}] }

Args == [file : BOOLEAN, dry_run : BOOLEAN, reverse : BOOLEAN,
         skip_bad : BOOLEAN, fix_bad : BOOLEAN]

Disks == {[state |-> "missing", lines |-> <<>>], [state |-> "unreadable", lines |-> <<>>]}
         \cup {[state |-> "ok", lines |-> l] : l \in BuildInputs}

\* what every run starts with
Fresh ==
    /\ tokens = <<>>
    /\ vi = 1
    /\ validated = <<>>
    /\ folder_stack = EmptyStack
    /\ verr = NoError
    /\ pending = <<>>
    /\ out = <<>>
    /\ exit_status = Running
    /\ calls = 0
    /\ fs_init = fs
    /\ fs_prev = fs

----------------------------------------------------------------------------
(* Specifications *)

\* a run of main
Init ==
    /\ args \in Args
    /\ disk \in Disks
    /\ fs \in InitFS
    /\ raw_lines = <<>>
    /\ pc = "main"
    /\ Fresh

Next == main

Spec == Init /\ [][Next]_vars

\* tokenize_structure on every short sequence of short lines
InitTok ==
    /\ args = [file |-> FALSE, dry_run |-> FALSE, reverse |-> FALSE,
               skip_bad |-> FALSE, fix_bad |-> FALSE]
    /\ raw_lines \in TokInputs
    /\ disk = [state |-> "ok", lines |-> raw_lines]
    /\ fs = EmptyFS
    /\ pc = "tokenize"
    /\ Fresh

NextTok == MainTokenize

SpecTok == InitTok /\ [][NextTok]_vars

\* tokenize_structure and validate_tokens under every policy
InitVal ==
    /\ args \in {a \in Args : ~a.file /\ ~a.dry_run /\ ~a.reverse}
    /\ raw_lines \in ValInputs
    /\ disk = [state |-> "ok", lines |-> raw_lines]
    /\ fs = EmptyFS
    /\ pc = "tokenize"
    /\ Fresh

NextVal == MainTokenize \/ validate_tokens

SpecVal == InitVal /\ [][NextVal]_vars

\* tokenize, validate, then build_from_tokens called up to twice
InitBuild ==
    /\ args \in {a \in Args : ~a.file /\ ~a.reverse /\ ~(a.skip_bad /\ a.fix_bad)}
    /\ raw_lines \in BuildInputs
    /\ disk = [state |-> "ok", lines |-> raw_lines]
    /\ fs \in InitFS
    /\ pc = "tokenize"
    /\ Fresh

NextBuild == MainTokenize \/ validate_tokens \/ build_from_tokens \/ BuildAgain

SpecBuild == InitBuild /\ [][NextBuild]_vars

----------------------------------------------------------------------------
(* TreeWalker, and the round trip through it *)

src == <<"s", "r", "c">>
main_py == <<"m", "a", "i", "n", ".", "p", "y">>
utils == <<"u", "t", "i", "l", "s">>
helper_py == <<"h", "e", "l", "p", "e", "r", ".", "p", "y">>
gitignore == <<".", "g", "i", "t", "i", "g", "n", "o", "r", "e">>

\* every name a tree may hold, in lexicographic order
NameOrder == << <<"a">>, <<"b">>, helper_py, main_py, src, utils >>

\* the lines of directory p of tree t, from the i-th name on
RECURSIVE walk(_, _, _, _)
walk(t, p, depth, i) ==
    IF i > Len(NameOrder) THEN <<>>
    ELSE LET n == NameOrder[i]
             q == Append(p, n)
             hidden == Head(n) = "." /\ n # gitignore
             here == IF hidden THEN <<>>
                     ELSE IF q \in t.dirs
                     THEN << Spaces(2 * depth) \o n \o <<"/">> >> \o walk(t, q, depth + 1, 1)
                     ELSE IF q \in t.files THEN << Spaces(2 * depth) \o n >>
                     ELSE <<>>
         IN  here \o walk(t, p, depth, i + 1)

walk_tree(t) == walk(t, <<>>, 0, 1)

TreeNames == << <<"a">>, <<"b">> >>

\* the trees under directory p built from TreeNames[i..], k levels deep at most
RECURSIVE Subtrees(_, _, _)
Subtrees(p, i, k) ==
    IF k = 0 \/ i > Len(TreeNames) THEN {EmptyFS}
    ELSE LET q == Append(p, TreeNames[i])
             here == {EmptyFS, [dirs |-> {}, files |-> {q}]}
                     \cup {[dirs |-> {q} \cup s.dirs, files |-> s.files] :
                             s \in Subtrees(q, 1, k - 1)}
         IN  {[dirs |-> h.dirs \cup r.dirs, files |-> h.files \cup r.files] :
                 h \in here, r \in Subtrees(p, i + 1, k)}

ScenarioTree ==
    [dirs  |-> {<<src>>, <<src, utils>>},
     files |-> {<<src, main_py>>, <<src, utils, helper_py>>}]

Trees == Subtrees(<<>>, 1, MaxTreeDepth) \cup {ScenarioTree}

\* a tree is walked, and its lines are tokenized, validated and built into an
\* empty target
InitWalk ==
    /\ args \in {a \in Args : ~a.file /\ ~a.reverse}
    /\ raw_lines \in {walk_tree(t) : t \in Trees}
    /\ disk = [state |-> "ok", lines |-> raw_lines]
    /\ fs = EmptyFS
    /\ pc = "tokenize"
    /\ Fresh

NextWalk == MainTokenize \/ validate_tokens \/ build_from_tokens

SpecWalk == InitWalk /\ [][NextWalk]_vars

----------------------------------------------------------------------------
(* Properties *)

\* the policy the two flags select, by the order lines 94-103 test them
Policy ==
    IF args.skip_bad THEN "Skip" ELSE IF args.fix_bad THEN "Fix" ELSE "Strict"

\* the entries as tokenize_structure returned them, before any Fix rewrite
Entries == tokenize_structure(raw_lines)

Indices(s) == 1..Len(s)

FolderBefore(T, i, d) ==
    \E j \in 1..(i - 1) : T[j].type = "folder" /\ T[j].depth = d

\* the File entries with no earlier Folder entry at depth - 2
Orphans(T) ==
    {i \in Indices(T) : T[i].type = "file" /\ ~FolderBefore(T, i, T[i].depth - 2)}

Logged(tag, line) == \E k \in Indices(out) : out[k].tag = tag /\ out[k].line = line

KeptAt(line) == {k \in Indices(validated) : validated[k].line_number = line}

ValidationOver == pc \in {"raised", "build"}

BuildTags == {"Would create folder", "Created folder", "Would create file", "Created file"}
FolderTags == {"Would create folder", "Created folder"}

BuildLog == SelectSeq(out, LAMBDA m : m.tag \in BuildTags)

DepthOfLine(line) == validated[CHOOSE k \in Indices(validated) : validated[k].line_number = line].depth

\* C1: the scenario lines "src/", "  main.py", "  utils/", "    helper.py",
\* validated under Strict and built with dry_run false, leave exactly folder src,
\* file src/main.py, folder src/utils and file src/utils/helper.py
ScenarioLines ==
    << src \o <<"/">>,
       Spaces(2) \o main_py,
       Spaces(2) \o utils \o <<"/">>,
       Spaces(4) \o helper_py >>

C1_ScenarioBuildsNested ==
    (raw_lines = ScenarioLines /\ Policy = "Strict" /\ ~args.dry_run /\ pc = "built")
        => fs = ScenarioTree

\* C2, as stated: every File entry with no earlier Folder entry at depth - 2 makes
\* Strict validation fail with the error naming that entry's line, is absent from
\* the output under Skip, and is in the output with depth 0 under Fix
C2_EveryOrphanNamed ==
    ValidationOver =>
        LET T == Entries
        IN  \A i \in Orphans(T) :
              /\ Policy = "Strict" =>
                    (pc = "raised" /\ verr.line_number = T[i].line_number)
              /\ Policy = "Skip" => KeptAt(T[i].line_number) = {}
              /\ Policy = "Fix" =>
                    \E k \in KeptAt(T[i].line_number) :
                        validated[k].type = "file" /\ validated[k].depth = 0

\* C2, amended: under Strict the error names the line of the first such entry
\* (with its name and depth - 2); under Skip every such entry is absent from the
\* output; under Fix every such entry is in the output with depth 0
C2_FirstOrphanNamed ==
    ValidationOver =>
        LET T == Entries
            O == Orphans(T)
        IN  /\ (Policy = "Strict" /\ O # {}) =>
                  LET t == T[CHOOSE i \in O : \A j \in O : i <= j]
                  IN  /\ pc = "raised"
                      /\ verr = [line_number |-> t.line_number, name |-> t.name,
                                 depth |-> t.depth - 2]
            /\ \A i \in O :
                  /\ Policy = "Skip" => KeptAt(T[i].line_number) = {}
                  /\ Policy = "Fix" =>
                        \E k \in KeptAt(T[i].line_number) :
                            validated[k].type = "file" /\ validated[k].depth = 0

\* two orphan files after a kept folder: Strict stops at the first of them
C2_Witness ==
    /\ pc = "raised"
    /\ Cardinality(Orphans(Entries)) >= 2
    /\ verr.line_number = 2
    /\ Len(validated) = 1

\* C3: the lines of a walked tree, tokenized, validated under Strict and built
\* into an empty target, pass validation and rebuild the same tree
C3_RoundTrip ==
    \A t \in Trees :
        (raw_lines = walk_tree(t) /\ Policy = "Strict" /\ ~args.dry_run
            /\ pc \in {"raised", "oserror", "built"})
        => (pc = "built" /\ fs = t)

\* C4: a run with --reverse ends successfully, with .scaffold holding the walk of
\* the current directory
C4_ReverseWritesScaffold ==
    (args.reverse /\ pc = "exit") =>
        /\ exit_status = 0
        /\ ~args.file => disk = [state |-> "ok", lines |-> walk_tree(fs)]

\* C5: a second build_from_tokens on the same tokens and base_path, after a first
\* one that returned, raises nothing and leaves the filesystem as the first left it
C5_SecondBuildChangesNothing ==
    (calls = 2 /\ ~args.dry_run) => (pc # "oserror" /\ fs = fs_prev)

C5_Witness ==
    /\ calls = 2 /\ pc = "built" /\ ~args.dry_run
    /\ fs.dirs # {} /\ fs.files # {}
    /\ fs # fs_init

\* C6: with dry_run the filesystem is never changed, build_from_tokens reports one
\* "would create" per entry, and the run of main ends with status 0
C6_DryRunTouchesNothing ==
    args.dry_run =>
        /\ fs = fs_init
        /\ pc \in {"built", "exit"} /\ calls > 0 =>
              /\ Len(BuildLog) = Len(validated)
              /\ \A k \in Indices(validated) :
                    Logged(IF validated[k].type = "folder" THEN "Would create folder"
                           ELSE "Would create file", validated[k].line_number)
        /\ pc = "exit" /\ calls > 0 => exit_status = 0

C6_Witness ==
    /\ args.dry_run /\ pc = "exit" /\ exit_status = 0
    /\ Len(validated) = 2
    /\ validated[1].type # validated[2].type
    /\ fs_init # EmptyFS

\* C7: once Strict validation has failed, nothing was and nothing is built: the
\* filesystem is as it was, build_from_tokens was never entered, and the run ends
\* with the diagnostic printed and status 1
C7_StrictFailureBuildsNothing ==
    verr # NoError =>
        /\ pc \in {"raised", "exit"}
        /\ fs = fs_init
        /\ calls = 0
        /\ BuildLog = <<>>
        /\ pc = "exit" => (exit_status = 1 /\ Logged("ERROR", verr.line_number))

\* a folder precedes the orphan file, and the run has ended
C7_Witness ==
    /\ verr # NoError /\ pc = "exit" /\ ~args.dry_run
    /\ Len(validated) >= 1
    /\ validated[1].type = "folder"

\* C8: tokenize_structure returns one entry per line that is not whitespace-only,
\* in input order, each with the 1-based position of its line
NonBlank(line) == \E k \in Indices(line) : line[k] \notin Whitespace

NonBlankAt(lines) == {i \in Indices(lines) : NonBlank(lines[i])}

C8_OneEntryPerNonBlankLine ==
    pc = "validate" =>
        /\ Len(tokens) = Cardinality(NonBlankAt(raw_lines))
        /\ {tokens[k].line_number : k \in Indices(tokens)} = NonBlankAt(raw_lines)
        /\ \A j, k \in Indices(tokens) :
              j < k => tokens[j].line_number < tokens[k].line_number

\* a whitespace-only line before a line with a name
C8_Witness ==
    /\ pc = "validate"
    /\ Len(raw_lines) = 2
    /\ raw_lines[1] # <<>> /\ ~NonBlank(raw_lines[1])
    /\ Len(tokens) = 1
    /\ tokens[1].line_number = 2

Seen(i) == i < vi \/ (pc = "raised" /\ i = vi)

NoParent(T, i) ==
    LET line == T[i].line_number
    IN  /\ Policy = "Strict" => (pc = "raised" /\ vi = i /\ verr.line_number = line)
        /\ Policy = "Skip" => (Logged("SKIP", line) /\ KeptAt(line) = {})
        /\ Policy = "Fix" =>
              /\ Logged("FIX", line)
              /\ \E k \in KeptAt(line) : validated[k].depth = 0

KeptUnchanged(T, i) ==
    LET line == T[i].line_number
    IN  /\ \E k \in KeptAt(line) : validated[k] = T[i]
        /\ ~Logged("SKIP", line) /\ ~Logged("FIX", line)
        /\ ~(pc = "raised" /\ vi = i)

C10_LedgerHoldsSeenFolderDepths ==
    pc \in {"validate", "raised", "build"} =>
        LET T == Entries
        IN  /\ DOMAIN folder_stack =
                  {T[j].depth : j \in {i \in Indices(T) : Seen(i) /\ T[i].type = "folder"}}
            /\ \A d \in DOMAIN folder_stack : d >= 0
            /\ \A i \in Indices(T) :
                  (Seen(i) /\ T[i].type = "file") =>
                      /\ T[i].depth < 2 => NoParent(T, i)
                      /\ T[i].depth >= 2 =>
                            (KeptUnchanged(T, i) <=> FolderBefore(T, i, T[i].depth - 2))
                      /\ KeptUnchanged(T, i) \/ NoParent(T, i)

\* a file at depth 3 kept under Strict because of a depth-1 folder that a later
\* depth-0 folder has closed
C10_Witness ==
    /\ pc = "build" /\ Policy = "Strict"
    /\ Len(validated) = 3
    /\ tokens[1].type = "folder" /\ tokens[1].depth = 1
    /\ tokens[2].type = "folder" /\ tokens[2].depth = 0
    /\ tokens[3].type = "file" /\ tokens[3].depth = 3

====
